---- MODULE Spec2Model ----
(***************************************************************************)
(* The slot-resolution engine of the voice meeting scheduler:              *)
(* smart_schedule_meeting (src/tools.py, src/main_terminal.py) running     *)
(* against the calendar backend (src/google_calendar_api.py).              *)
(*                                                                         *)
(* Time.  A datetime is a record [wall, tz]: `wall` is the wall-clock      *)
(* reading in ticks (TicksPerSecond ticks to the second, so a datetime     *)
(* has a sub-second component) and `tz` is the UTC offset printed in its   *)
(* ISO form ("" for a naive datetime).  The absolute instant a datetime    *)
(* denotes is wall - UtcOffset(tz).  Asia/Kolkata is UTC+05:30 all year.   *)
(*                                                                         *)
(* A string handed to the engine is a record [kind, wall, tz]: kind        *)
(* "empty" is the empty string, "garbage" a non-empty string that          *)
(* datetime.fromisoformat rejects, "iso" a well-formed ISO timestamp.      *)
(***************************************************************************)
EXTENDS Integers, Sequences, FiniteSets, TLC

\* ---------------------------------------------------------------- bounds
MaxEvents == 2          \* bookings already in the calendar at start-up
NumSessions == 2        \* callers (sessions) sharing the one api_resource
TicksPerSecond == 2     \* resolution of the clock below one second

\* ------------------------------------------------------ program constants
BufferMinutes == 5      \* timedelta(minutes=5)
SlotMinutes == 30       \* minutes % 30

TicksPerMinute == 60 * TicksPerSecond
At(m, s, t) == (m * 60 + s) * TicksPerSecond + t

time_zone == "Asia/Kolkata"
KolkataTz == "+05:30"
OtherTz == "+05:45"
WestTz == "+05:00"

\* utcoffset() of an aware datetime; a naive one has none
UtcOffset(tz) ==
    CASE tz = KolkataTz -> At(330, 0, 0)
      [] tz = OtherTz -> At(345, 0, 0)
      [] tz = WestTz -> At(300, 0, 0)

\* ------------------------------------------------------------- input sets
Sessions == 1..NumSessions

\* wall-clock readings: on a slot boundary, 5 minutes before one, 5 minutes
\* before one with seconds and a sub-second part, and one slot apart
Walls == {At(0, 0, 0), At(25, 0, 0), At(25, 30, 1), At(30, 0, 0), At(60, 0, 0)}

EmptyString == [kind |-> "empty", wall |-> 0, tz |-> ""]
Garbage == [kind |-> "garbage", wall |-> 0, tz |-> ""]
SlotWalls == {At(0, 0, 0), At(30, 0, 0)}

\* well-formed timestamps: with the configured zone's offset, with another
\* zone's offset, and naive ones
IsoStrings ==
    [kind : {"iso"}, wall : Walls, tz : {KolkataTz, OtherTz}]
    \cup [kind : {"iso"}, wall : SlotWalls, tz : {""}]

Summaries == {"", "sync"}

\* both timestamps well-formed: written the same way, or (on the slot
\* boundaries) each in its own way
WellFormedPairs ==
    {w \in IsoStrings \X IsoStrings :
        w[1].tz = w[2].tz \/ {w[1].wall, w[2].wall} \subseteq SlotWalls}

\* at least one timestamp missing or malformed
SomeIso == [kind |-> "iso", wall |-> At(0, 0, 0), tz |-> KolkataTz]
MalformedPairs ==
    {w \in {EmptyString, Garbage, SomeIso} \X {EmptyString, Garbage, SomeIso} :
        w # <<SomeIso, SomeIso>>}

Requests ==
    {[summary |-> s, preferred_start |-> w[1], preferred_end |-> w[2]] :
        s \in Summaries \ {""}, w \in WellFormedPairs \cup MalformedPairs}
    \cup
    {[summary |-> "", preferred_start |-> w[1], preferred_end |-> w[2]] :
        w \in MalformedPairs \cup {<<SomeIso, [SomeIso EXCEPT !.wall = At(30, 0, 0)]>>}}

\* --------------------------------------------------------------- datetime
\* datetime.fromisoformat(s): defined on well-formed strings only
CanParse(s) == s.kind = "iso"
fromisoformat(s) == [wall |-> s.wall, tz |-> s.tz]

\* tz.localize(dt.replace(tzinfo=None)): the offset is dropped and the wall
\* reading is labelled with the configured zone
localize(dt) == [wall |-> dt.wall, tz |-> KolkataTz]

isoformat(dt) == [kind |-> "iso", wall |-> dt.wall, tz |-> dt.tz]

\* the instant an aware datetime denotes (what aware comparison compares)
Instant(dt) == dt.wall - UtcOffset(dt.tz)

\* ---------------------------------------------------------------- backend
\* an event resource as the backend stores and returns it
EventTimes(w) == [dateTime |-> w, timeZone |-> time_zone]

Booking(n, s, a, b) ==
    [id |-> n, status |-> "confirmed", summary |-> s,
     start |-> EventTimes(a), end |-> EventTimes(b)]

\* a closed-interval comparison: a booking that only touches the window counts
OverlapsClosed(event, min_dt, max_dt) ==
    /\ Instant(fromisoformat(event.start.dateTime)) <= Instant(max_dt)
    /\ Instant(fromisoformat(event.end.dateTime)) >= Instant(min_dt)

\* only the events that start inside the window are reported
StartsInside(event, min_dt, max_dt) ==
    /\ Instant(fromisoformat(event.start.dateTime)) >= Instant(min_dt)
    /\ Instant(fromisoformat(event.start.dateTime)) < Instant(max_dt)

\* events().list(timeMin, timeMax).execute(): the stored events that overlap
\* the window, in stored order
Overlaps(event, min_dt, max_dt) ==
    /\ Instant(fromisoformat(event.start.dateTime)) < Instant(max_dt)
    /\ Instant(fromisoformat(event.end.dateTime)) > Instant(min_dt)

list_events(store, timeMin, timeMax) ==
    LET min_dt == fromisoformat(timeMin)
        max_dt == fromisoformat(timeMax)
    IN  SelectSeq(store, LAMBDA event : Overlaps(event, min_dt, max_dt))

\* the store keeps one event per window: an insert replaces the stored events
\* that have the new event's start and end
upsert_event(store, eventBody) ==
    Append(SelectSeq(store, LAMBDA e : ~(e.start = eventBody.start /\ e.end = eventBody.end)),
           [id |-> Len(store) + 1, status |-> "confirmed",
            summary |-> eventBody.summary,
            start |-> eventBody.start, end |-> eventBody.end])

\* events().insert(body).execute(): the new event, appended to the store
new_event(store, eventBody) ==
    [id |-> Len(store) + 1, status |-> "confirmed",
     summary |-> eventBody.summary,
     start |-> eventBody.start, end |-> eventBody.end]

insert_event(store, eventBody) == Append(store, new_event(store, eventBody))

\* api_resource.events() on the fallback object: __init__ binds the instance
\* attribute `events` to a list, which hides the method of the same name, so
\* the call raises TypeError before any request is built
EventsCallable(api) == api # "mock"

\* -------------------------------------------------- smart_schedule_meeting
\* only the summary is looked at
MissingSummary(a) == a.summary = ""

\* `if not all([summary, preferred_start, preferred_end])`
MissingDetails(a) ==
    \/ a.summary = ""
    \/ a.preferred_start.kind = "empty"
    \/ a.preferred_end.kind = "empty"

start_dt(a) == localize(fromisoformat(a.preferred_start))
end_dt(a) == localize(fromisoformat(a.preferred_end))

EventBody(a) ==
    [summary |-> a.summary,
     start |-> EventTimes(isoformat(start_dt(a))),
     end |-> EventTimes(isoformat(end_dt(a)))]

\* the loop over conflicting_events: the latest of end_dt and the conflicts'
\* end times, each re-labelled with the configured zone
RECURSIVE ScanConflicts(_, _)
ScanConflicts(suggested_start_dt, conflicting_events) ==
    IF conflicting_events = <<>> THEN suggested_start_dt
    ELSE LET conflict == Head(conflicting_events)
             conflict_end_dt == localize(fromisoformat(conflict.end.dateTime))
         IN  ScanConflicts(
                 IF Instant(conflict_end_dt) > Instant(suggested_start_dt)
                 THEN conflict_end_dt ELSE suggested_start_dt,
                 Tail(conflicting_events))

\* dt + timedelta(minutes=n)
PlusMinutes(dt, n) == [dt EXCEPT !.wall = @ + n * TicksPerMinute]

\* dt.minute
MinuteOf(dt) == (dt.wall \div TicksPerMinute) % 60

\* the seconds and the sub-second part are kept
KeepSeconds(dt) == dt

\* dt.replace(second=0, microsecond=0)
ZeroSeconds(dt) == [dt EXCEPT !.wall = @ - (@ % TicksPerMinute)]

\* the step to the next slot boundary, without the buffer
RoundOnly(latest) ==
    LET remainder == MinuteOf(latest) % SlotMinutes
        stepped == IF remainder # 0
                   THEN PlusMinutes(latest, SlotMinutes - remainder)
                   ELSE latest
    IN  ZeroSeconds(stepped)

\* the 5-minute buffer, then the step to the next slot boundary
BufferAndRound(latest) ==
    LET buffered == PlusMinutes(latest, BufferMinutes)
        remainder == MinuteOf(buffered) % SlotMinutes
        stepped == IF remainder # 0
                   THEN PlusMinutes(buffered, SlotMinutes - remainder)
                   ELSE buffered
    IN  ZeroSeconds(stepped)

\* duration = end_dt - start_dt;  suggested_end_dt = suggested_start_dt + duration
SuggestedEnd(suggested_start_dt, a) ==
    [suggested_start_dt EXCEPT
        !.wall = @ + (Instant(end_dt(a)) - Instant(start_dt(a)))]

Suggest(a, conflicting_events) ==
    LET latest == ScanConflicts(end_dt(a), conflicting_events)
        s == BufferAndRound(latest)
    IN  [latest |-> latest, start |-> s, end |-> SuggestedEnd(s, a)]

\* the values returned
NoResult == [status |-> "none"]
MissingResult ==
    [status |-> "error",
     message |-> "Missing required meeting details (summary, preferred_start, preferred_end)."]
ExceptionResult(e) ==
    [status |-> "error", message |-> "An error occurred: " \o e]
SuccessResult(created_event) ==
    [status |-> "success", message |-> "Meeting scheduled.", event |-> created_event]
SuggestedResult(c) ==
    [status |-> "conflict",
     message |-> "Preferred time is busy. Suggested next available slot:",
     suggested_start |-> isoformat(c.start),
     suggested_end |-> isoformat(c.end)]
UnavailableResult ==
    [status |-> "conflict",
     message |-> "Preferred time is busy and next suggested time is also unavailable. Please try another slot."]

\* no handler: the exception leaves smart_schedule_meeting
Propagate(e) == [status |-> "raised", message |-> e]

\* the handler reuses the message of the missing-details check
ReportMissing(e) == MissingResult

\* `except Exception as e`: every exception raised inside the try block
\* becomes an error result
Handle(e) == ExceptionResult(e)

NoArgs == [summary |-> "", preferred_start |-> EmptyString, preferred_end |-> EmptyString]
NoDatetime == [wall |-> 0, tz |-> ""]
NoSuggestion == [latest |-> NoDatetime, start |-> NoDatetime, end |-> NoDatetime]

\* `if not conflicting_events:` insert, `else:` propose a candidate
AfterPreferred(items) == IF items = <<>> THEN "insert" ELSE "list_candidate"

\* the candidate is suggested without looking at the second list's items
CandidateResultUnchecked(c, items) == SuggestedResult(c)

\* `if not suggested_events_result.get('items', [])`
CandidateResult(c, items) ==
    IF items = <<>> THEN SuggestedResult(c) ELSE UnavailableResult

\* the requests a call sends to the backend; `answered` is whether execute()
\* returned rather than raised
PreferredRequest(a, ok) ==
    [op |-> "list", timeMin |-> isoformat(start_dt(a)),
     timeMax |-> isoformat(end_dt(a)), answered |-> ok]
InsertRequest(a, ok) ==
    [op |-> "insert", timeMin |-> EventBody(a).start.dateTime,
     timeMax |-> EventBody(a).end.dateTime, answered |-> ok]
CandidateRequest(c, ok) ==
    [op |-> "list", timeMin |-> isoformat(c.start),
     timeMax |-> isoformat(c.end), answered |-> ok]

\* ------------------------------------------------------------------ state
VARIABLES
    api_resource,   \* the module-level handle: "service" or the "mock" fallback
    events,         \* the calendar's bookings, in stored order
    callsLeft,      \* schedule calls the callers may still issue
    workers,        \* calls the calling layer lets run at the same time
    pc,             \* per session: where its schedule call stands
    args,           \* per session: the arguments of its call
    conflicting_events, \* per session: items of the first list call
    suggested,      \* per session: the candidate computed on conflict
    result,         \* per session: the value returned
    requests,       \* per session: backend requests issued by the call, in order
    before          \* per session: the bookings when the call began

vars == <<api_resource, events, callsLeft, workers, pc, args, conflicting_events,
          suggested, result, requests, before>>

\* the bookings a calendar may hold at start-up
Windows == {w \in Walls \X Walls : w[1] < w[2]}
Written(w, z) ==
    <<[kind |-> "iso", wall |-> w[1], tz |-> z],
      [kind |-> "iso", wall |-> w[2], tz |-> z]>>
EventChoices ==
    {Written(w, KolkataTz) : w \in Windows}
    \cup {Written(w, OtherTz) :
              w \in {v \in Windows : {v[1], v[2]} \subseteq SlotWalls \cup {At(60, 0, 0)}}}

InitialCalendars ==
    UNION {[1..n -> EventChoices] : n \in 0..MaxEvents}

Stored(choice) ==
    [i \in DOMAIN choice |-> Booking(i, "busy", choice[i][1], choice[i][2])]

InitLocals ==
    /\ pc = [p \in Sessions |-> "idle"]
    /\ args = [p \in Sessions |-> NoArgs]
    /\ conflicting_events = [p \in Sessions |-> <<>>]
    /\ suggested = [p \in Sessions |-> NoSuggestion]
    /\ result = [p \in Sessions |-> NoResult]
    /\ requests = [p \in Sessions |-> <<>>]
    /\ before = [p \in Sessions |-> <<>>]

\* Spec: one schedule call, on any calendar of at most MaxEvents bookings,
\* with either backend handle
Init ==
    /\ api_resource \in {"service", "mock"}
    /\ events \in {Stored(c) : c \in InitialCalendars}
    /\ callsLeft = 1
    /\ workers = 1
    /\ InitLocals

\* sessions are interchangeable: a call is taken by the first idle session,
\* while fewer than `workers` calls are running
Running == {q \in Sessions : pc[q] # "idle"}
MayStart(p) ==
    /\ Cardinality(Running) < workers
    /\ \A q \in Sessions : q < p => pc[q] # "idle"

Finish(p, r) ==
    /\ pc' = [pc EXCEPT ![p] = "done"]
    /\ result' = [result EXCEPT ![p] = r]

\* lines 58-67: the missing-details check, then the parse of both timestamps
Call(p, a) ==
    /\ pc[p] = "idle"
    /\ callsLeft > 0
    /\ MayStart(p)
    /\ callsLeft' = callsLeft - 1
    /\ args' = [args EXCEPT ![p] = a]
    /\ before' = [before EXCEPT ![p] = events]
    /\ IF MissingDetails(a)
       THEN Finish(p, MissingResult)
       ELSE IF ~CanParse(a.preferred_start) \/ ~CanParse(a.preferred_end)
       THEN Finish(p, Handle("Invalid isoformat string"))
       ELSE /\ pc' = [pc EXCEPT ![p] = "list_preferred"]
            /\ UNCHANGED result
    /\ UNCHANGED <<api_resource, events, workers, conflicting_events, suggested, requests>>

BackendError(api) ==
    IF EventsCallable(api) THEN "HttpError" ELSE "'list' object is not callable"

\* lines 69-77 and, on conflict, 88-102: the list call for the preferred window
ListPreferred(p) ==
    /\ pc[p] = "list_preferred"
    /\ EventsCallable(api_resource)
    /\ LET a == args[p]
           q == PreferredRequest(a, TRUE)
           items == list_events(events, q.timeMin, q.timeMax)
       IN  /\ requests' = [requests EXCEPT ![p] = Append(@, q)]
           /\ conflicting_events' = [conflicting_events EXCEPT ![p] = items]
           /\ pc' = [pc EXCEPT ![p] = AfterPreferred(items)]
           /\ suggested' = [suggested EXCEPT
                  ![p] = IF items = <<>> THEN @ ELSE Suggest(a, items)]
    /\ UNCHANGED <<api_resource, events, callsLeft, workers, args, result, before>>

\* the request the call is about to send
Pending(p) ==
    CASE pc[p] = "list_preferred" -> PreferredRequest(args[p], FALSE)
      [] pc[p] = "insert" -> InsertRequest(args[p], FALSE)
      [] pc[p] = "list_candidate" -> CandidateRequest(suggested[p], FALSE)

\* a failed insert leaves its event in the store
BackendRaisesAfterWrite(p, at) ==
    /\ pc[p] = at
    /\ requests' = [requests EXCEPT
           ![p] = IF EventsCallable(api_resource) THEN Append(@, Pending(p)) ELSE @]
    /\ events' = IF at = "insert" /\ EventsCallable(api_resource)
                 THEN insert_event(events, EventBody(args[p])) ELSE events
    /\ Finish(p, Handle(BackendError(api_resource)))
    /\ UNCHANGED <<api_resource, callsLeft, workers, args, conflicting_events,
                   suggested, before>>

\* the backend call raises (events() itself on the fallback object, execute()
\* on the service): caught at line 124, the calendar is left as it was
BackendRaises(p, at) ==
    /\ pc[p] = at
    /\ requests' = [requests EXCEPT
           ![p] = IF EventsCallable(api_resource) THEN Append(@, Pending(p)) ELSE @]
    /\ Finish(p, Handle(BackendError(api_resource)))
    /\ UNCHANGED <<api_resource, events, callsLeft, workers, args, conflicting_events,
                   suggested, before>>

\* the insert looks at the window again and books only if it is still free
InsertIfStillFree(p) ==
    /\ pc[p] = "insert"
    /\ EventsCallable(api_resource)
    /\ LET body == EventBody(args[p])
           q == PreferredRequest(args[p], TRUE)
           items == list_events(events, q.timeMin, q.timeMax)
       IN  /\ requests' = [requests EXCEPT ![p] = Append(@, InsertRequest(args[p], TRUE))]
           /\ events' = IF items = <<>> THEN insert_event(events, body) ELSE events
           /\ Finish(p, IF items = <<>> THEN SuccessResult(new_event(events, body))
                        ELSE UnavailableResult)
    /\ UNCHANGED <<api_resource, callsLeft, workers, args, conflicting_events, suggested, before>>

\* lines 79-86: no conflict, so the event is inserted
Insert(p) ==
    /\ pc[p] = "insert"
    /\ EventsCallable(api_resource)
    /\ LET body == EventBody(args[p])
       IN  /\ requests' = [requests EXCEPT ![p] = Append(@, InsertRequest(args[p], TRUE))]
           /\ events' = insert_event(events, body)
           /\ Finish(p, SuccessResult(new_event(events, body)))
    /\ UNCHANGED <<api_resource, callsLeft, workers, args, conflicting_events, suggested, before>>

\* a free candidate is booked straight away instead of being suggested
ListCandidateBooks(p) ==
    /\ pc[p] = "list_candidate"
    /\ EventsCallable(api_resource)
    /\ LET c == suggested[p]
           q == CandidateRequest(c, TRUE)
           items == list_events(events, q.timeMin, q.timeMax)
           body == [summary |-> args[p].summary,
                    start |-> EventTimes(q.timeMin), end |-> EventTimes(q.timeMax)]
       IN  /\ requests' = [requests EXCEPT ![p] = Append(@, q)]
           /\ events' = IF items = <<>> THEN insert_event(events, body) ELSE events
           /\ Finish(p, CandidateResult(c, items))
    /\ UNCHANGED <<api_resource, callsLeft, workers, args, conflicting_events,
                   suggested, before>>

\* lines 104-123: the list call for the candidate window
ListCandidate(p) ==
    /\ pc[p] = "list_candidate"
    /\ EventsCallable(api_resource)
    /\ LET c == suggested[p]
           q == CandidateRequest(c, TRUE)
           items == list_events(events, q.timeMin, q.timeMax)
       IN  /\ requests' = [requests EXCEPT ![p] = Append(@, q)]
           /\ Finish(p, CandidateResult(c, items))
    /\ UNCHANGED <<api_resource, events, callsLeft, workers, args, conflicting_events,
                   suggested, before>>

\* the caller takes the value; the call's locals are gone
Return(p) ==
    /\ pc[p] = "done"
    /\ pc' = [pc EXCEPT ![p] = "idle"]
    /\ args' = [args EXCEPT ![p] = NoArgs]
    /\ conflicting_events' = [conflicting_events EXCEPT ![p] = <<>>]
    /\ suggested' = [suggested EXCEPT ![p] = NoSuggestion]
    /\ result' = [result EXCEPT ![p] = NoResult]
    /\ requests' = [requests EXCEPT ![p] = <<>>]
    /\ before' = [before EXCEPT ![p] = <<>>]
    /\ UNCHANGED <<api_resource, events, callsLeft, workers>>

Next ==
    \E p \in Sessions :
        \/ \E a \in Requests : Call(p, a)
        \/ ListPreferred(p)
        \/ BackendRaises(p, "list_preferred")
        \/ Insert(p)
        \/ BackendRaises(p, "insert")
        \/ ListCandidate(p)
        \/ BackendRaises(p, "list_candidate")
        \/ Return(p)

Spec == Init /\ [][Next]_vars

\* ------------------------------------------------------- concurrent calls
\* SpecConc: two schedule calls that the calling layer runs at the same time
\* (each chat message runs its agent, and so its tool calls, in a thread of
\* its own) against the one module-level backend handle
ConcEvents == 1         \* bookings in the calendar when the two calls begin

ConcWindows == {w \in Windows : {w[1], w[2]} \subseteq SlotWalls \cup {At(60, 0, 0)}}

ConcCalendars ==
    UNION {[1..n -> {Written(w, KolkataTz) : w \in ConcWindows}] : n \in 0..ConcEvents}

ConcRequests ==
    {[summary |-> "sync", preferred_start |-> Written(w, KolkataTz)[1],
      preferred_end |-> Written(w, KolkataTz)[2]] : w \in ConcWindows}
    \cup {NoArgs}

InitConc ==
    /\ api_resource \in {"service", "mock"}
    /\ events \in {Stored(c) : c \in ConcCalendars}
    /\ callsLeft = 2
    /\ workers = 2
    /\ InitLocals

NextConc ==
    \E p \in Sessions :
        \/ \E a \in ConcRequests : Call(p, a)
        \/ ListPreferred(p)
        \/ BackendRaises(p, "list_preferred")
        \/ Insert(p)
        \/ BackendRaises(p, "insert")
        \/ ListCandidate(p)
        \/ BackendRaises(p, "list_candidate")
        \/ Return(p)

SpecConc == InitConc /\ [][NextConc]_vars

\* ------------------------------------------------------ the terminal entry
\* main_terminal.py has its own copy of smart_schedule_meeting, which takes
\* the backend handle as an argument (default None) and checks it first; the
\* tool binds the argument to the module-level handle
NoHandle == "None"

NotProvidedResult ==
    [status |-> "error",
     message |-> "Google Calendar API resource not provided to the tool."]

TerminalArgs(a, h) ==
    [summary |-> a.summary, preferred_start |-> a.preferred_start,
     preferred_end |-> a.preferred_end, api_resource |-> h]

\* main_terminal.py lines 144-156: the handle check, the missing-details
\* check, then the parse of both timestamps
CallTerminal(p, a, h) ==
    /\ pc[p] = "idle"
    /\ callsLeft > 0
    /\ MayStart(p)
    /\ h \in {NoHandle, api_resource}
    /\ callsLeft' = callsLeft - 1
    /\ args' = [args EXCEPT ![p] = TerminalArgs(a, h)]
    /\ before' = [before EXCEPT ![p] = events]
    /\ IF h = NoHandle
       THEN Finish(p, NotProvidedResult)
       ELSE IF MissingDetails(a)
       THEN Finish(p, MissingResult)
       ELSE IF ~CanParse(a.preferred_start) \/ ~CanParse(a.preferred_end)
       THEN Finish(p, Handle("Invalid isoformat string"))
       ELSE /\ pc' = [pc EXCEPT ![p] = "list_preferred"]
            /\ UNCHANGED result
    /\ UNCHANGED <<api_resource, events, workers, conflicting_events, suggested, requests>>

\* SpecEntry: one schedule call through either entry point
InitEntry ==
    /\ api_resource \in {"service", "mock"}
    /\ events \in {Stored(c) : c \in ConcCalendars}
    /\ callsLeft = 1
    /\ workers = 1
    /\ InitLocals

NextEntry ==
    \E p \in Sessions :
        \/ \E a \in Requests : Call(p, a)
        \/ \E a \in Requests, h \in {NoHandle, "service", "mock"} : CallTerminal(p, a, h)
        \/ ListPreferred(p)
        \/ BackendRaises(p, "list_preferred")
        \/ Insert(p)
        \/ BackendRaises(p, "insert")
        \/ ListCandidate(p)
        \/ BackendRaises(p, "list_candidate")
        \/ Return(p)

SpecEntry == InitEntry /\ [][NextEntry]_vars

\* --------------------------------------------------- parse_natural_datetime
\* A phrase is what dateutil's fuzzy parser makes of it: `has` names the
\* components it recognises (a day, an hour, a minute; an offset only behind
\* an hour), `words` says whether it skipped tokens it could not read. The
\* empty string has no component and no skipped token.
TicksPerHour == 60 * TicksPerMinute
TicksPerDay == 24 * TicksPerHour

PhraseShapes ==
    {{}, {"day"}, {"hour"}, {"day", "hour"}, {"hour", "minute"},
     {"day", "hour", "minute"}}

Phrases ==
    {ph \in [has : PhraseShapes, day : {0, 1}, hour : {0, 10}, minute : {0, 30},
             tz : {"", OtherTz}, words : BOOLEAN] :
        /\ ph.day = (IF "day" \in ph.has THEN 1 ELSE 0)
        /\ ph.hour = (IF "hour" \in ph.has THEN 10 ELSE 0)
        /\ ph.minute = (IF "minute" \in ph.has THEN 30 ELSE 0)
        /\ ph.tz # "" => "hour" \in ph.has}

EmptyPhrase ==
    [has |-> {}, day |-> 0, hour |-> 0, minute |-> 0, tz |-> "", words |-> FALSE]

References == IsoStrings \cup {EmptyString, Garbage}

\* dateutil_parse raises when the phrase holds no date or time component
HasComponent(input_string) == input_string.has # {}

\* dateutil_parse(input_string, fuzzy=True, default=current_dt): the default
\* with the recognised components put in; the zone is the phrase's offset if
\* it has one, the default's otherwise
DefaultReplaced(input_string, default) ==
    LET day == IF "day" \in input_string.has
               THEN input_string.day ELSE default.wall \div TicksPerDay
        hour == IF "hour" \in input_string.has
                THEN input_string.hour ELSE (default.wall \div TicksPerHour) % 24
        minute == IF "minute" \in input_string.has
                  THEN input_string.minute ELSE MinuteOf(default)
    IN  [wall |-> day * TicksPerDay + hour * TicksPerHour
                  + minute * TicksPerMinute + (default.wall % TicksPerMinute),
         tz |-> IF input_string.tz # "" THEN input_string.tz ELSE default.tz]

\* dt.astimezone(tz): the same instant, read in the configured zone
astimezone(dt) ==
    [wall |-> dt.wall - UtcOffset(dt.tz) + UtcOffset(KolkataTz), tz |-> KolkataTz]

ParsedResult(parsed_dt) == [parsed_datetime |-> isoformat(parsed_dt)]
ParseErrorResult(e) ==
    [error |-> "Could not parse natural datetime: " \o e
               \o ". Please try a more specific format."]

\* a phrase without any component yields the reference instant
parse_defaulting(input_string, current_datetime_str) ==
    IF ~CanParse(current_datetime_str)
    THEN ParseErrorResult("Invalid isoformat string")
    ELSE LET current_dt == localize(fromisoformat(current_datetime_str))
             parsed_dt == DefaultReplaced(input_string, current_dt)
         IN  ParsedResult(IF parsed_dt.tz = "" THEN localize(parsed_dt)
                          ELSE astimezone(parsed_dt))

\* tools.py lines 30-41
parse_natural_datetime(input_string, current_datetime_str) ==
    IF ~CanParse(current_datetime_str)
    THEN ParseErrorResult("Invalid isoformat string")
    ELSE LET current_dt == localize(fromisoformat(current_datetime_str))
         IN  IF ~HasComponent(input_string)
             THEN ParseErrorResult("String does not contain a date")
             ELSE LET parsed_dt == DefaultReplaced(input_string, current_dt)
                  IN  ParsedResult(IF parsed_dt.tz = "" THEN localize(parsed_dt)
                                   ELSE astimezone(parsed_dt))

\* the tool call: arguments in, the returned value out
CallParse(p, input_string, current_datetime_str) ==
    /\ pc[p] = "idle"
    /\ callsLeft > 0
    /\ MayStart(p)
    /\ callsLeft' = callsLeft - 1
    /\ args' = [args EXCEPT ![p] = [input_string |-> input_string,
                                    current_datetime_str |-> current_datetime_str]]
    /\ Finish(p, parse_natural_datetime(input_string, current_datetime_str))
    /\ UNCHANGED <<api_resource, events, workers, conflicting_events, suggested,
                   requests, before>>

\* SpecParse: one call of parse_natural_datetime with any phrase and reference
InitParse ==
    /\ api_resource \in {"service", "mock"}
    /\ events = <<>>
    /\ callsLeft = 1
    /\ workers = 1
    /\ InitLocals

NextParse ==
    \E p \in Sessions :
        \/ \E ph \in Phrases, c \in References : CallParse(p, ph, c)
        \/ Return(p)

SpecParse == InitParse /\ [][NextParse]_vars

\* ------------------------------------------------------------ a morning
\* SpecMorning: one schedule call on a morning's calendar; the clock reads
\* minutes after 10:00, timestamps are naive or carry the configured offset
MorningEvents == 2      \* bookings in the morning's calendar

Clock(h, m) == At((h - 10) * 60 + m, 0, 0)

MorningBookings ==
    {<<Clock(10, 15), Clock(11, 0)>>, <<Clock(11, 30), Clock(12, 0)>>,
     <<Clock(11, 0), Clock(11, 30)>>, <<Clock(10, 0), Clock(10, 30)>>}

MorningCalendars ==
    UNION {[1..n -> {Written(w, KolkataTz) : w \in MorningBookings}] :
              n \in 0..MorningEvents}

MorningRequests ==
    {[summary |-> "sync", preferred_start |-> Written(w, z)[1],
      preferred_end |-> Written(w, z)[2]] :
        w \in {<<Clock(10, 0), Clock(10, 30)>>, <<Clock(10, 30), Clock(11, 0)>>,
               <<Clock(11, 30), Clock(12, 0)>>},
        z \in {"", KolkataTz}}

InitMorning ==
    /\ api_resource \in {"service", "mock"}
    /\ events \in {Stored(c) : c \in MorningCalendars}
    /\ callsLeft = 1
    /\ workers = 1
    /\ InitLocals

NextMorning ==
    \E p \in Sessions :
        \/ \E a \in MorningRequests : Call(p, a)
        \/ ListPreferred(p)
        \/ BackendRaises(p, "list_preferred")
        \/ Insert(p)
        \/ BackendRaises(p, "insert")
        \/ ListCandidate(p)
        \/ BackendRaises(p, "list_candidate")
        \/ Return(p)

SpecMorning == InitMorning /\ [][NextMorning]_vars

\* ------------------------------------------------------- calls in sequence
\* SpecSerial: two schedule calls, the second begun after the first has
\* returned, on a calendar whose bookings do not overlap one another
SerialEvents == 1       \* bookings in the calendar before the first call

Disjoint(store) ==
    \A i, j \in DOMAIN store :
        i < j => /\ ~Overlaps(store[i], fromisoformat(store[j].start.dateTime),
                              fromisoformat(store[j].end.dateTime))
                 /\ ~Overlaps(store[j], fromisoformat(store[i].start.dateTime),
                              fromisoformat(store[i].end.dateTime))

SerialCalendars ==
    {c \in UNION {[1..n -> EventChoices] : n \in 0..SerialEvents} :
        Disjoint(Stored(c))}

\* requests on the slot boundaries, also with start at or after end, written
\* with either offset
SerialWalls == SlotWalls \cup {At(60, 0, 0)}

SerialRequests ==
    {[summary |-> "sync",
      preferred_start |-> [kind |-> "iso", wall |-> a, tz |-> z],
      preferred_end |-> [kind |-> "iso", wall |-> b, tz |-> z]] :
        a \in SerialWalls, b \in SerialWalls, z \in {KolkataTz, OtherTz}}
    \cup {NoArgs}

InitSerial ==
    /\ api_resource \in {"service", "mock"}
    /\ events \in {Stored(c) : c \in SerialCalendars}
    /\ callsLeft = 2
    /\ workers = 1
    /\ InitLocals

NextSerial ==
    \E p \in Sessions :
        \/ \E a \in SerialRequests : Call(p, a)
        \/ ListPreferred(p)
        \/ BackendRaises(p, "list_preferred")
        \/ Insert(p)
        \/ BackendRaises(p, "insert")
        \/ ListCandidate(p)
        \/ BackendRaises(p, "list_candidate")
        \/ Return(p)

SpecSerial == InitSerial /\ [][NextSerial]_vars

\* ------------------------------------------------- booking the suggestion
\* SpecFollow: one schedule call and, when it returns a suggestion, the call
\* the caller makes next with the suggested_start and suggested_end it was
\* given, while it still holds that result
FollowEvents == 2       \* bookings in the calendar before the first call

FollowCalendars ==
    UNION {[1..n -> {Written(w, KolkataTz) : w \in ConcWindows}] : n \in 0..FollowEvents}

\* requests written with the configured offset or with one west of it
FollowRequests ==
    {[summary |-> "sync", preferred_start |-> Written(w, z)[1],
      preferred_end |-> Written(w, z)[2]] :
        w \in Windows, z \in {KolkataTz, WestTz}}

\* lines 58-67 for the arguments taken from the suggestion session p holds
Follow(p, q) ==
    /\ p # q
    /\ pc[p] = "done"
    /\ "suggested_start" \in DOMAIN result[p]
    /\ \A r \in Sessions \ {p} : pc[r] = "idle"
    /\ \A r \in Sessions \ {p} : q <= r
    /\ callsLeft > 0
    /\ callsLeft' = callsLeft - 1
    /\ LET a == [summary |-> args[p].summary,
                 preferred_start |-> result[p].suggested_start,
                 preferred_end |-> result[p].suggested_end]
       IN  /\ args' = [args EXCEPT ![q] = a]
           /\ before' = [before EXCEPT ![q] = events]
           /\ IF MissingDetails(a)
              THEN Finish(q, MissingResult)
              ELSE IF ~CanParse(a.preferred_start) \/ ~CanParse(a.preferred_end)
              THEN Finish(q, Handle("Invalid isoformat string"))
              ELSE /\ pc' = [pc EXCEPT ![q] = "list_preferred"]
                   /\ UNCHANGED result
    /\ UNCHANGED <<api_resource, events, workers, conflicting_events, suggested,
                   requests>>

InitFollow ==
    /\ api_resource \in {"service", "mock"}
    /\ events \in {Stored(c) : c \in FollowCalendars}
    /\ callsLeft = 2
    /\ workers = 1
    /\ InitLocals

NextFollow ==
    \/ \E p \in Sessions :
          \/ \E a \in FollowRequests : Call(p, a)
          \/ ListPreferred(p)
          \/ BackendRaises(p, "list_preferred")
          \/ Insert(p)
          \/ BackendRaises(p, "insert")
          \/ ListCandidate(p)
          \/ BackendRaises(p, "list_candidate")
          \/ Return(p)
    \/ \E p, q \in Sessions : Follow(p, q)

SpecFollow == InitFollow /\ [][NextFollow]_vars

\* ================================================================= claims
\* the instant a timestamp string denotes: by its own offset, or by the
\* configured zone's when it is naive
Denotes(s) == s.wall - UtcOffset(IF s.tz = "" THEN KolkataTz ELSE s.tz)

BookingStart(e) == Denotes(e.start.dateTime)
BookingEnd(e) == Denotes(e.end.dateTime)

Range(seq) == {seq[i] : i \in DOMAIN seq}

\* the backend is the service and answered every request the call sent
Answered(p) ==
    /\ api_resource = "service"
    /\ \A i \in DOMAIN requests[p] : requests[p][i].answered

WellFormed(a) == CanParse(a.preferred_start) /\ CanParse(a.preferred_end)

Inserts(p) == {i \in DOMAIN requests[p] : requests[p][i].op = "insert"}

\* C1: a request with a non-empty summary and start < end whose window
\* [start, end) no booking of the calendar overlaps is answered "success",
\* and the calendar gains one booking with exactly that window and summary
\* (read for calls whose backend requests were all answered).
C1_FreeWindowIsBooked ==
    \A p \in Sessions :
        LET a == args[p]
            ws == Denotes(a.preferred_start)
            we == Denotes(a.preferred_end)
        IN  ( /\ pc[p] = "done"
              /\ a.summary # ""
              /\ WellFormed(a)
              /\ ws < we
              /\ Answered(p)
              /\ \A b \in Range(before[p]) :
                    ~(BookingStart(b) < we /\ BookingEnd(b) > ws) )
            => /\ result[p].status = "success"
               /\ Len(events) = Len(before[p]) + 1
               /\ SubSeq(events, 1, Len(before[p])) = before[p]
               /\ BookingStart(events[Len(events)]) = ws
               /\ BookingEnd(events[Len(events)]) = we
               /\ events[Len(events)].summary = a.summary

\* C2: a request whose start is not strictly before its end gets an error
\* result whatever the calendar holds, and nothing is inserted.
C2_EmptyWindowIsInvalid ==
    \A p \in Sessions :
        LET a == args[p]
        IN  ( /\ pc[p] = "done"
              /\ WellFormed(a)
              /\ Denotes(a.preferred_start) >= Denotes(a.preferred_end) )
            => /\ result[p].status = "error"
               /\ Inserts(p) = {}
               /\ events = before[p]

\* C3: the bookings the first list call reports are exactly those with
\* bs < we and be > ws for the queried window (ws, we); a booking that only
\* touches the window is never reported, and a call whose window is touched
\* but not overlapped books instead of answering "conflict".
C3_HalfOpenOverlap ==
    \A p \in Sessions :
        (requests[p] # <<>> /\ requests[p][1].answered) =>
            LET ws == Denotes(requests[p][1].timeMin)
                we == Denotes(requests[p][1].timeMax)
                reported == Range(conflicting_events[p])
                touching == {b \in Range(before[p]) :
                                BookingEnd(b) = ws \/ BookingStart(b) = we}
            IN  /\ \A b \in Range(before[p]) :
                      b \in reported <=> (BookingStart(b) < we /\ BookingEnd(b) > ws)
                /\ reported \cap touching = {}
                /\ (pc[p] = "done" /\ Answered(p) /\ reported = {} /\ touching # {})
                      => /\ result[p].status = "success"
                         /\ events = Append(before[p], result[p].event)

C3_AdjacentIsBooked ==
    \E p \in Sessions :
        /\ pc[p] = "done"
        /\ result[p].status = "success"
        /\ Denotes(requests[p][1].timeMin) < Denotes(requests[p][1].timeMax)
        /\ \E b \in Range(before[p]) :
              BookingEnd(b) = Denotes(requests[p][1].timeMin)
        /\ \E b \in Range(before[p]) :
              BookingStart(b) = Denotes(requests[p][1].timeMax)

\* C4: whenever the preferred window has a conflict the call sends no insert
\* and the calendar stays as it was when the call began, whether the answer
\* is a suggestion, "unavailable" or an error.
C4_NoAutoBooking ==
    \A p \in Sessions :
        conflicting_events[p] # <<>> =>
            /\ Inserts(p) = {}
            /\ events = before[p]

C4_SuggestedNotBooked ==
    \E p \in Sessions :
        /\ pc[p] = "done"
        /\ conflicting_events[p] # <<>>
        /\ result[p] = SuggestedResult(suggested[p])
        /\ \A b \in Range(events) :
              ~(BookingStart(b) < Denotes(result[p].suggested_end)
                /\ BookingEnd(b) > Denotes(result[p].suggested_start))

\* C5: a call sends at most two requests: one list for the preferred window,
\* then one insert (no conflict) or one list for the single candidate window
\* (conflict), and nothing else; on conflict the answer is the suggestion iff
\* no booking overlaps the candidate window and "unavailable" iff one does.
C5_OneProposalAttempt ==
    \A p \in Sessions :
        LET r == requests[p]
            busy == \E b \in Range(events) :
                        /\ BookingStart(b) < Denotes(r[2].timeMax)
                        /\ BookingEnd(b) > Denotes(r[2].timeMin)
        IN  /\ Len(r) <= 2
            /\ Len(r) >= 1 => r[1] = PreferredRequest(args[p], r[1].answered)
            /\ Len(r) = 2 =>
                  /\ r[1].answered
                  /\ IF conflicting_events[p] = <<>>
                     THEN r[2] = InsertRequest(args[p], r[2].answered)
                     ELSE r[2] = CandidateRequest(suggested[p], r[2].answered)
            /\ (pc[p] = "done" /\ conflicting_events[p] # <<>>
                    /\ Len(r) = 2 /\ r[2].answered) =>
                  /\ result[p] = SuggestedResult(suggested[p]) <=> ~busy
                  /\ result[p] = UnavailableResult <=> busy

C5_CandidateBusy ==
    \E p \in Sessions :
        /\ pc[p] = "done"
        /\ Len(requests[p]) = 2
        /\ requests[p][2].op = "list"
        /\ result[p] = UnavailableResult

Max(S) == CHOOSE x \in S : \A y \in S : y <= x

\* C6: on conflict the instant the candidate is derived from is the maximum
\* of the preferred window's end and the end of every conflicting booking.
C6_LatestEndIsMaximum ==
    \A p \in Sessions :
        conflicting_events[p] # <<>> =>
            Instant(suggested[p].latest) =
                Max({Denotes(args[p].preferred_end)}
                    \cup {BookingEnd(c) : c \in Range(conflicting_events[p])})

\* C7: the candidate start is the latest end plus 5 minutes rounded up to
\* the next 30-minute boundary: not before the buffered start, less than 30
\* minutes after it, and equal to it when it is on a boundary already.
C7_RoundsUp ==
    \A p \in Sessions :
        conflicting_events[p] # <<>> =>
            LET buffered == suggested[p].latest.wall + BufferMinutes * TicksPerMinute
                start == suggested[p].start.wall
            IN  /\ start >= buffered
                /\ start < buffered + SlotMinutes * TicksPerMinute
                /\ buffered % (SlotMinutes * TicksPerMinute) = 0 => start = buffered

OnSlotBoundary(w) ==
    /\ (w \div TicksPerMinute) % 60 \in {0, SlotMinutes}
    /\ w % TicksPerMinute = 0

\* C8: every candidate start, the one computed, the one queried and the one
\* returned as a suggestion, has minute 0 or 30 and no seconds or sub-second
\* part.
C8_RoundingLaw ==
    \A p \in Sessions :
        /\ conflicting_events[p] # <<>> => OnSlotBoundary(suggested[p].start.wall)
        /\ \A i \in DOMAIN requests[p] :
              (i > 1 /\ requests[p][i].op = "list")
                  => OnSlotBoundary(requests[p][i].timeMin.wall)
        /\ (pc[p] = "done" /\ "suggested_start" \in DOMAIN result[p])
              => OnSlotBoundary(result[p].suggested_start.wall)

C8_SecondsZeroed ==
    \E p \in Sessions :
        /\ pc[p] = "done"
        /\ "suggested_start" \in DOMAIN result[p]
        /\ suggested[p].latest.wall % TicksPerMinute # 0
        /\ suggested[p].latest.wall % TicksPerSecond # 0

\* C9: on conflict the candidate window is as long as the requested one.
C9_DurationPreserved ==
    \A p \in Sessions :
        conflicting_events[p] # <<>> =>
            Instant(suggested[p].end) - Instant(suggested[p].start)
                = Denotes(args[p].preferred_end) - Denotes(args[p].preferred_start)

\* C10: every call that has ended holds one result value, with a message and
\* status "success", "conflict" or "error", whatever the input was and
\* wherever the backend failed; a call that has not ended holds none.
C10_ErrorsAreData ==
    \A p \in Sessions :
        /\ pc[p] = "done" =>
              /\ result[p].status \in {"success", "conflict", "error"}
              /\ "message" \in DOMAIN result[p]
        /\ pc[p] # "done" => result[p] = NoResult

C10_InsertFailureReturned ==
    \E p \in Sessions :
        /\ pc[p] = "done"
        /\ Len(requests[p]) = 2
        /\ requests[p][2].op = "insert"
        /\ ~requests[p][2].answered
        /\ result[p].status = "error"

\* the call ended because the backend raised: at events() on the fallback
\* object, or at execute() of the last request sent to the service
BackendFailed(p) ==
    /\ pc[p] = "done"
    /\ ~MissingDetails(args[p])
    /\ WellFormed(args[p])
    /\ \/ ~EventsCallable(api_resource)
       \/ requests[p] # <<>> /\ ~requests[p][Len(requests[p])].answered

\* the results a validation failure returns
InvalidResults == {MissingResult, Handle("Invalid isoformat string")}

\* C11: whenever a list or insert call to the backend fails, the call returns
\* an error result that is neither the "unavailable" result nor one of the
\* results of a validation failure, and never a success or a suggestion; and
\* no call that the backend did not fail returns that result.
C11_BackendFailureIsDistinct ==
    \A p \in Sessions :
        /\ BackendFailed(p) =>
              /\ result[p].status = "error"
              /\ result[p] # UnavailableResult
              /\ result[p] \notin InvalidResults
              /\ "event" \notin DOMAIN result[p]
              /\ "suggested_start" \notin DOMAIN result[p]
        /\ (pc[p] = "done" /\ ~BackendFailed(p)) =>
              result[p] # Handle(BackendError(api_resource))

C11_CandidateListFailed ==
    \E p \in Sessions :
        /\ BackendFailed(p)
        /\ Len(requests[p]) = 2
        /\ requests[p][2].op = "list"
        /\ ~requests[p][2].answered
        /\ result[p] = Handle("HttpError")

\* C12: over a call the calendar gains a booking iff the call returns
\* "success", and then exactly the one returned; a call that returns an
\* error (validation failure, failed list, failed insert) or a conflict
\* leaves the bookings exactly as they were when it began.
C12_NoPartialBookings ==
    \A p \in Sessions :
        pc[p] = "done" =>
            /\ result[p].status = "success" <=> Len(events) > Len(before[p])
            /\ result[p].status = "success" =>
                  events = Append(before[p], result[p].event)
            /\ result[p].status # "success" => events = before[p]

C12_FailedInsertLeavesNothing ==
    \E p \in Sessions :
        /\ pc[p] = "done"
        /\ before[p] # <<>>
        /\ Len(requests[p]) = 2
        /\ requests[p][2].op = "insert"
        /\ ~requests[p][2].answered
        /\ result[p].status = "error"
        /\ events = before[p]

\* the booking a call's success result returns
Booked(p) == result[p].event

OverlapHalfOpen(a, b) ==
    BookingStart(a) < BookingEnd(b) /\ BookingStart(b) < BookingEnd(a)

\* C13: nothing stands between a call's check of its preferred window and
\* its insert: a call that found the window free books it whenever its insert
\* is answered, whatever other calls have booked since; so two calls running
\* at the same time on a free window both return "success" and the calendar
\* holds two overlapping bookings.
C13_InsertDoesNotRecheck ==
    \A p \in Sessions :
        ( /\ pc[p] = "done"
          /\ Len(requests[p]) = 2
          /\ requests[p][2].op = "insert"
          /\ requests[p][2].answered )
        => /\ result[p].status = "success"
           /\ Booked(p) \in Range(events)
           /\ BookingStart(Booked(p)) = Denotes(args[p].preferred_start)
           /\ BookingEnd(Booked(p)) = Denotes(args[p].preferred_end)

C13_DoubleBooking ==
    \E p, q \in Sessions :
        /\ p # q
        /\ pc[p] = "done" /\ pc[q] = "done"
        /\ result[p].status = "success" /\ result[q].status = "success"
        /\ before[p] = before[q]
        /\ events = <<Booked(p), Booked(q)>>
        /\ BookingStart(Booked(p)) < BookingEnd(Booked(p))
        /\ BookingStart(Booked(q)) < BookingEnd(Booked(q))
        /\ OverlapHalfOpen(Booked(p), Booked(q))

\* C14: every step leaves the stored bookings as they are or appends one
\* booking behind them, and that step is the insert of some call; a call
\* sends at most one insert. So every booking present before a call is still
\* there afterwards with the same id, summary, start, end and status.
C14_StoreOnlyGrows ==
    /\ [](\A p \in Sessions : Cardinality(Inserts(p)) <= 1)
    /\ [][ \/ events' = events
           \/ /\ Len(events') = Len(events) + 1
              /\ SubSeq(events', 1, Len(events)) = events
              /\ \E p \in Sessions : pc[p] = "insert" /\ pc'[p] = "done" ]_vars

C14_TwoAppended ==
    \E p \in Sessions :
        /\ pc[p] = "done"
        /\ before[p] # <<>>
        /\ Len(events) = Len(before[p]) + 2
        /\ SubSeq(events, 1, Len(before[p])) = before[p]

\* the call came through the terminal entry without a backend handle
NoHandleSupplied(p) ==
    "api_resource" \in DOMAIN args[p] /\ args[p].api_resource = NoHandle

\* one of the three required arguments is missing or empty
FieldMissing(p) ==
    \/ args[p].summary = ""
    \/ args[p].preferred_start = EmptyString
    \/ args[p].preferred_end = EmptyString

\* C15: a call whose summary, preferred_start or preferred_end is missing or
\* empty returns the missing-details error and sends no list and no insert;
\* no call with a missing field ever has a request on record; and a call
\* through the terminal entry without a backend handle returns an error
\* result, again without any request.
C15_ValidationFirst ==
    \A p \in Sessions :
        /\ (FieldMissing(p) \/ NoHandleSupplied(p)) =>
              /\ requests[p] = <<>>
              /\ pc[p] \in {"idle", "done"}
        /\ (pc[p] = "done" /\ FieldMissing(p) /\ ~NoHandleSupplied(p)) =>
              /\ result[p] = MissingResult
              /\ events = before[p]
        /\ (pc[p] = "done" /\ NoHandleSupplied(p)) =>
              /\ result[p] = NotProvidedResult
              /\ events = before[p]

C15_MissingStartRejected ==
    \E p \in Sessions :
        /\ pc[p] = "done"
        /\ args[p].summary # ""
        /\ args[p].preferred_start = EmptyString
        /\ args[p].preferred_end.kind = "iso"
        /\ before[p] # <<>>
        /\ result[p] = MissingResult
        /\ requests[p] = <<>>

\* what a backend implementing listEvents / insertEvent answers to the
\* engine's requests for the call with arguments a on the bookings `store`
ReferenceResult(a, store) ==
    LET q == PreferredRequest(a, TRUE)
        items == list_events(store, q.timeMin, q.timeMax)
        c == Suggest(a, items)
        r == CandidateRequest(c, TRUE)
    IN  IF items = <<>>
        THEN SuccessResult(new_event(store, EventBody(a)))
        ELSE CandidateResult(c, list_events(store, r.timeMin, r.timeMax))

ReferenceStore(a, store) ==
    LET q == PreferredRequest(a, TRUE)
    IN  IF list_events(store, q.timeMin, q.timeMax) = <<>>
        THEN insert_event(store, EventBody(a))
        ELSE store

\* C16: through the fallback object a call ends as it would with a backend
\* implementing listEvents / insertEvent: a valid request on a free window
\* returns "success" and its booking is stored, one that overlaps a stored
\* booking is answered "conflict".
C16_MockBehavesAsBackend ==
    \A p \in Sessions :
        ( /\ pc[p] = "done"
          /\ api_resource = "mock"
          /\ ~FieldMissing(p)
          /\ WellFormed(args[p]) )
        => /\ result[p] = ReferenceResult(args[p], before[p])
           /\ events = ReferenceStore(args[p], before[p])

\* C17: every window the engine produces has its start before its end: the
\* window of every booking it inserts, every candidate window it queries and
\* every window it returns as a suggestion.
C17_WindowsAreProper ==
    \A p \in Sessions :
        /\ \A i \in DOMAIN requests[p] :
              i > 1 => Denotes(requests[p][i].timeMin) < Denotes(requests[p][i].timeMax)
        /\ (pc[p] = "done" /\ result[p].status = "success") =>
              BookingStart(Booked(p)) < BookingEnd(Booked(p))
        /\ (pc[p] = "done" /\ "suggested_start" \in DOMAIN result[p]) =>
              Denotes(result[p].suggested_start) < Denotes(result[p].suggested_end)

\* C18: the engine works on the instants its inputs denote: the window it
\* queries first and the window it books are the instants of preferred_start
\* and preferred_end, and the latest end it derives the candidate from is the
\* instant of preferred_end or of the end of a conflicting booking, whatever
\* offset those timestamps are written with.
C18_SameInstants ==
    \A p \in Sessions :
        /\ \A i \in DOMAIN requests[p] :
              (i = 1 \/ requests[p][i].op = "insert") =>
                  /\ Denotes(requests[p][i].timeMin) = Denotes(args[p].preferred_start)
                  /\ Denotes(requests[p][i].timeMax) = Denotes(args[p].preferred_end)
        /\ conflicting_events[p] # <<>> =>
              Instant(suggested[p].latest) \in
                  {Denotes(args[p].preferred_end)}
                  \cup {BookingEnd(c) : c \in Range(conflicting_events[p])}

\* a finished call of parse_natural_datetime
Parsed(p) == pc[p] = "done" /\ "input_string" \in DOMAIN args[p]

\* C19: parse_natural_datetime returns either a parsed timestamp or an error,
\* never both and never neither; for a phrase without any date or time
\* component (the empty string among them) and for a malformed reference
\* timestamp it returns the error, with a non-empty message and no
\* parsed_datetime.
C19_ParseErrorIsExplicit ==
    \A p \in Sessions :
        Parsed(p) =>
            /\ DOMAIN result[p] \in {{"parsed_datetime"}, {"error"}}
            /\ ( \/ args[p].input_string.has = {}
                 \/ args[p].current_datetime_str.kind # "iso" )
               => /\ DOMAIN result[p] = {"error"}
                  /\ result[p].error # ""

C19_EmptyPhraseRejected ==
    \E p \in Sessions :
        /\ Parsed(p)
        /\ args[p].input_string = EmptyPhrase
        /\ args[p].current_datetime_str.kind = "iso"
        /\ DOMAIN result[p] = {"error"}

\* the windows of the bookings of a store, as pairs of instants
WindowsOf(store) == {<<BookingStart(b), BookingEnd(b)>> : b \in Range(store)}

InKolkata(h, m) == Clock(h, m) - UtcOffset(KolkataTz)

\* the call asks for 10:00-10:30
AsksTenToHalfPast(p) ==
    /\ pc[p] # "idle"
    /\ Denotes(args[p].preferred_start) = InKolkata(10, 0)
    /\ Denotes(args[p].preferred_end) = InKolkata(10, 30)

\* C20: with the one booking 10:15-11:00 a request for 10:00-10:30 has the
\* candidate 11:30-12:00 (11:00 plus 5 minutes, stepped to 11:30, again 30
\* minutes long) and is answered with that suggestion; with 11:30-12:00
\* booked as well it is answered "unavailable"; in both cases the calendar
\* is left as it was.
C20_ScenariosBAndC ==
    \A p \in Sessions :
        LET B == {<<InKolkata(10, 15), InKolkata(11, 0)>>}
            C == B \cup {<<InKolkata(11, 30), InKolkata(12, 0)>>}
        IN  (AsksTenToHalfPast(p) /\ WindowsOf(before[p]) \in {B, C}) =>
                /\ events = before[p]
                /\ Inserts(p) = {}
                /\ (Len(requests[p]) >= 1 /\ requests[p][1].answered) =>
                      /\ conflicting_events[p] # <<>>
                      /\ Instant(suggested[p].start) = InKolkata(11, 30)
                      /\ Instant(suggested[p].end) = InKolkata(12, 0)
                /\ (pc[p] = "done" /\ Answered(p)) =>
                      /\ WindowsOf(before[p]) = B =>
                            /\ result[p] = SuggestedResult(suggested[p])
                            /\ Denotes(result[p].suggested_start) = InKolkata(11, 30)
                            /\ Denotes(result[p].suggested_end) = InKolkata(12, 0)
                      /\ WindowsOf(before[p]) = C => result[p] = UnavailableResult

C20_ScenarioC ==
    \E p \in Sessions :
        /\ AsksTenToHalfPast(p)
        /\ pc[p] = "done"
        /\ Len(before[p]) = 2
        /\ WindowsOf(before[p]) =
              {<<InKolkata(10, 15), InKolkata(11, 0)>>,
               <<InKolkata(11, 30), InKolkata(12, 0)>>}
        /\ result[p] = UnavailableResult
        /\ Instant(suggested[p].start) = InKolkata(11, 30)
        /\ events = before[p]

\* C21: when calls run one after the other on a calendar whose bookings do
\* not overlap one another, the bookings never come to overlap (b1 and b2
\* overlap iff b1 starts before b2 ends and b2 starts before b1 ends), and
\* every booking a call inserted overlaps none of the bookings that were in
\* the calendar when it was inserted.
C21_SequentialSafety ==
    /\ \A i, j \in DOMAIN events :
          i # j => ~OverlapHalfOpen(events[i], events[j])
    /\ \A p \in Sessions :
          (pc[p] = "done" /\ result[p].status = "success") =>
              /\ events = Append(before[p], Booked(p))
              /\ \A b \in Range(before[p]) : ~OverlapHalfOpen(b, Booked(p))

C21_TwoBookedSideBySide ==
    \E p \in Sessions :
        /\ pc[p] = "done"
        /\ result[p].status = "success"
        /\ Len(before[p]) >= 1
        /\ before[p][Len(before[p])].summary = "sync"
        /\ BookingStart(Booked(p)) < BookingEnd(Booked(p))
        /\ BookingEnd(before[p][Len(before[p])]) = BookingStart(Booked(p))
        /\ BookingStart(before[p][Len(before[p])]) < BookingStart(Booked(p))

\* session p holds a suggestion
HoldsSuggestion(p) == pc[p] = "done" /\ "suggested_start" \in DOMAIN result[p]

\* session q has finished the call that asks for the window suggested to p,
\* on the calendar as p's call left it, and the backend answered
BookedSuggestion(p, q) ==
    /\ p # q
    /\ HoldsSuggestion(p)
    /\ pc[q] = "done"
    /\ args[q].preferred_start = result[p].suggested_start
    /\ args[q].preferred_end = result[p].suggested_end
    /\ before[q] = before[p]
    /\ Answered(q)

FollowUpIsBooked ==
    \A p, q \in Sessions :
        BookedSuggestion(p, q) =>
            /\ result[q].status = "success"
            /\ events = Append(before[p], Booked(q))
            /\ BookingStart(Booked(q)) = Denotes(result[p].suggested_start)
            /\ BookingEnd(Booked(q)) = Denotes(result[p].suggested_end)

SuggestionIsLater ==
    \A p \in Sessions :
        HoldsSuggestion(p) =>
            /\ Denotes(result[p].suggested_start) >= Denotes(args[p].preferred_end)
            /\ \A c \in Range(conflicting_events[p]) :
                  Denotes(result[p].suggested_start) >= BookingEnd(c)

\* C22: when a call returns the suggestion (s, e), the next call, made with
\* preferred_start = s and preferred_end = e on the unchanged calendar,
\* returns "success" with a booking of exactly the window (s, e); and s is
\* at or after the end of the preferred window and of every booking that
\* conflicted with it.
C22_SuggestThenBook == FollowUpIsBooked /\ SuggestionIsLater

====
